---- MODULE Spec2Model ----
(***************************************************************************)
(* Model of the client pool of chromadb-rs, src/src/api.rs:                *)
(* APIClientAsync::new and APIClientAsync::send_request, together with the *)
(* tokio primitives they use (Mutex, Notify) and the dropping of a pending *)
(* send_request future by its caller; and of get_auth and                  *)
(* send_request_no_self, which build, send and classify one request.       *)
(*                                                                         *)
(* Handles (Arc<Client>) are opaque; only their identity matters.  A       *)
(* handle that has been on loan carries a small positive name; a handle of *)
(* the construction-time batch that has never been on loan is written 0    *)
(* and is named when it is first popped.  Every 0 entry of client_pool is  *)
(* a distinct handle (api.rs:65 creates each with Arc::new), distinct from *)
(* every named one.  A name is free again once its handle is destroyed.    *)
(***************************************************************************)
EXTENDS Naturals, Sequences, FiniteSets

\* ---------------------------------------------------------------- bounds
\* Number of callers that issue dispatches concurrently.
NumTasks == 2
\* Largest `connections` argument given to APIClientAsync::new.
MaxConnections == 1

\* Most handles left idle in a pool whose construction-time batch has been
\* used up by dropped dispatches (the start of LiveSpec and of InitDrained).
MaxIdle == 1

\* --------------------------------------------------- program constants
\* api.rs:64, (0..128): the batch of clients created by new().
InitialBatch == 128

\* The callers that issue dispatches in Spec; those callers with one more (the
\* "third concurrent acquire" of a pool of maximum 2 needs NumTasks + 1); and
\* all callers there are (two releasing and two waiting need NumTasks + 2).
\* A caller outside the set a specification runs never calls.
Tasks == 1..NumTasks
TasksMax2 == 1..(NumTasks + 1)
AllTasks == 1..(NumTasks + 2)
NoClient == 0
Unnamed == 0

VARIABLES
    client_pool,        \* api.rs:38  Mutex<VecDeque<Arc<Client>>>: the deque
    mutex,              \* api.rs:38  the Mutex: 0 free, else the task holding the guard
    notify_permit,      \* api.rs:44  Notify: a stored notify_one permit
    notify_waiters,     \* api.rs:44  Notify: the registered Notified futures, oldest first
    connections_alloc,  \* api.rs:45
    connections_total,  \* api.rs:46
    pc,                 \* position of each caller inside send_request
    client,             \* api.rs:136 the local `client` of each caller (0: none)
    res,                \* api.rs:158 the local `res` of each caller
    rq                  \* api.rs:121-128, 167-210  a call of get_auth

\* The state of the pool and of its callers.
pool_vars == <<client_pool, mutex, notify_permit, notify_waiters,
               connections_alloc, connections_total, pc, client, res>>

vars == <<client_pool, mutex, notify_permit, notify_waiters, connections_alloc,
          connections_total, pc, client, res, rq>>

\* ------------------------------------------------------------- helpers
Range(s) == {s[i] : i \in 1..Len(s)}

RECURSIVE Remove(_, _)
Remove(s, x) ==
    IF s = <<>> THEN <<>>
    ELSE IF Head(s) = x THEN Remove(Tail(s), x)
    ELSE <<Head(s)>> \o Remove(Tail(s), x)

\* The handles on loan: held in the local `client` of a caller.
OnLoan == {client[t] : t \in {u \in AllTasks : client[u] # NoClient}}

\* Names of the handles in existence that carry a name.
NamesInUse == OnLoan \cup (Range(client_pool) \ {Unnamed})

\* Arc::new(Client::new()) yields an object distinct from all existing ones.
FreshName == CHOOSE n \in 1..(NumTasks + 3) : n \notin NamesInUse

\* VecDeque::pop_front: the element returned and the deque left.
FrontOf(q) == IF Head(q) = Unnamed THEN FreshName ELSE Head(q)
\* Mutant of PopFront: the front is read (front().cloned()) and not removed.
PopFrontKeepsFront(q) == q
PopFront(q) == Tail(q)
\* VecDeque::push_front
\* Mutant of PushFront: the handle is pushed twice.
PushFrontTwice(q, h) == <<h, h>> \o q

PushFront(q, h) == <<h>> \o q

\* Mutant of CanAllocate: the comparison is off by one.
CanAllocateOffByOne(alloc, total) == alloc <= total

\* api.rs:142-149  alloc < connections_total && compare_exchange(alloc, alloc + 1).
\* connections_alloc is read and written only under the pool's guard, so the
\* compare_exchange finds the value just loaded and succeeds.
CanAllocate(alloc, total) == alloc < total

\* ---------------------------------------------------------------- Init
\* APIClientAsync::new(endpoint, auth_method, tenant, database, connections)
New(connections) ==
    /\ client_pool = [i \in 1..InitialBatch |-> Unnamed]
    /\ mutex = 0
    /\ notify_permit = FALSE
    /\ notify_waiters = <<>>
    /\ connections_alloc = 0
    /\ connections_total = connections

\* No call of get_auth or of send_request_no_self is under way.
NoRequest ==
    [pc |-> "idle", caller |-> "none", auth |-> [kind |-> "None"],
     json_body |-> "None", headers |-> <<>>, status |-> 0, body |-> "",
     result |-> [kind |-> "none"]]

\* No caller has called send_request yet.
NoCalls ==
    /\ pc = [t \in AllTasks |-> "idle"]
    /\ client = [t \in AllTasks |-> NoClient]
    /\ res = [t \in AllTasks |-> "none"]
    /\ rq = NoRequest

Init ==
    /\ \E connections \in 0..MaxConnections : New(connections)
    /\ NoCalls

\* ------------------------------------------------------------- actions
\* A caller calls send_request (through get_database, post_database, ...).
Dispatch(t) ==
    /\ pc[t] = "idle"
    /\ pc' = [pc EXCEPT ![t] = "lock_acquire"]
    /\ res' = [res EXCEPT ![t] = "none"]
    /\ UNCHANGED <<client_pool, mutex, notify_permit, notify_waiters,
                   connections_alloc, connections_total, client, rq>>

\* api.rs:138  self.client_pool.lock().await completes.
LockAcquire(t) ==
    /\ pc[t] = "lock_acquire"
    /\ mutex = 0
    /\ mutex' = t
    /\ pc' = [pc EXCEPT ![t] = "acquire_cs"]
    /\ UNCHANGED <<client_pool, notify_permit, notify_waiters,
                   connections_alloc, connections_total, client, res, rq>>

\* Mutant of PopBranch: a pop counts as an allocation.
PopBranchCounts(t) ==
    /\ client' = [client EXCEPT ![t] = FrontOf(client_pool)]
    /\ client_pool' = PopFront(client_pool)
    /\ pc' = [pc EXCEPT ![t] = "send"]
    /\ connections_alloc' = connections_alloc + 1
    /\ UNCHANGED res

\* api.rs:139-141  if let Some(client) = pool.pop_front() { break client; }
PopBranch(t) ==
    /\ client' = [client EXCEPT ![t] = FrontOf(client_pool)]
    /\ client_pool' = PopFront(client_pool)
    /\ pc' = [pc EXCEPT ![t] = "send"]
    /\ UNCHANGED <<connections_alloc, res>>

\* Mutant of AllocBranch: a new client is made and the counter is left alone.
AllocBranchUncounted(t) ==
    /\ client' = [client EXCEPT ![t] = FreshName]
    /\ pc' = [pc EXCEPT ![t] = "send"]
    /\ UNCHANGED <<client_pool, connections_alloc, res>>

\* api.rs:145-152  the counter is incremented and a new client is made.
AllocBranch(t) ==
    /\ connections_alloc' = connections_alloc + 1
    /\ client' = [client EXCEPT ![t] = FreshName]
    /\ pc' = [pc EXCEPT ![t] = "send"]
    /\ UNCHANGED <<client_pool, res>>

\* Mutant of WaitBranch: a saturated pool fails the dispatch.
WaitBranchPoolFull(t) ==
    /\ pc' = [pc EXCEPT ![t] = "idle"]
    /\ res' = [res EXCEPT ![t] = "pool_full"]
    /\ UNCHANGED <<client_pool, connections_alloc, client>>

\* api.rs:153-154  drop(pool); the caller goes on to notified().await.
WaitBranch(t) ==
    /\ pc' = [pc EXCEPT ![t] = "notified"]
    /\ UNCHANGED <<client_pool, connections_alloc, client, res>>

\* Mutant of AcquireBody: without drop(pool) the guard lives on to the end of
\* the loop body, across notified().await.
AcquireBodyGuardKept(t) ==
    /\ pc[t] = "acquire_cs"
    /\ mutex = t
    /\ IF client_pool # <<>> THEN PopBranch(t)
       ELSE IF CanAllocate(connections_alloc, connections_total) THEN AllocBranch(t)
       ELSE WaitBranch(t)
    /\ mutex' = IF pc'[t] = "notified" THEN t ELSE 0
    /\ UNCHANGED <<notify_permit, notify_waiters, connections_total, rq>>

\* api.rs:139-153  the loop body under the guard: pop, or allocate, or go to
\* wait.  There is no await inside, and the guard is dropped on every way out
\* (it is a local of the loop body).
AcquireBody(t) ==
    /\ pc[t] = "acquire_cs"
    /\ mutex = t
    /\ IF client_pool # <<>> THEN PopBranch(t)
       ELSE IF CanAllocate(connections_alloc, connections_total) THEN AllocBranch(t)
       ELSE WaitBranch(t)
    /\ mutex' = 0
    /\ UNCHANGED <<notify_permit, notify_waiters, connections_total, rq>>

\* Mutant of NotifyOnePermit: a notification given while nobody waits is lost.
NotifyOnePermitLost(permit, waiters) == permit

\* tokio::sync::Notify::notify_one (api.rs:162): with no registered waiter
\* the permit is stored (one at most); otherwise the oldest waiter is woken.
NotifyOnePermit(permit, waiters) == IF waiters = <<>> THEN TRUE ELSE permit
NotifyOneWaiters(waiters) == IF waiters = <<>> THEN waiters ELSE Tail(waiters)
\* Mutant of NotifyOneWoken: the oldest waiter is taken off the list and not
\* woken.
NotifyOneWokenNobody(waiters) == {}

NotifyOneWoken(waiters) == IF waiters = <<>> THEN {} ELSE {Head(waiters)}

\* api.rs:154  first poll of self.await_connection.notified().await, after the
\* guard was dropped: a stored permit is consumed and the loop goes round;
\* otherwise the caller is registered as a waiter and suspends.
NotifiedPoll(t) ==
    /\ pc[t] = "notified"
    /\ IF notify_permit
       THEN /\ notify_permit' = FALSE
            /\ pc' = [pc EXCEPT ![t] = "lock_acquire"]
            /\ UNCHANGED notify_waiters
       ELSE /\ notify_waiters' = Append(notify_waiters, t)
            /\ pc' = [pc EXCEPT ![t] = "waiting"]
            /\ UNCHANGED notify_permit
    /\ UNCHANGED <<client_pool, mutex, connections_alloc, connections_total,
                   client, res, rq>>

\* api.rs:196-209  the outcomes of send_request_no_self: the live response,
\* a transport error (request.send().await?), or the error made from a
\* response whose status is not a success.
Outcomes == {"ok", "transport_err", "status_err"}
Errors == {"transport_err", "status_err"}

\* api.rs:154-155, 137  a caller selected by notify_one is polled again:
\* notified().await completes and the loop goes round to lock().await.
Resume(t) ==
    /\ pc[t] = "woken"
    /\ pc' = [pc EXCEPT ![t] = "lock_acquire"]
    /\ UNCHANGED <<client_pool, mutex, notify_permit, notify_waiters,
                   connections_alloc, connections_total, client, res, rq>>

\* Mutant of SendComplete: the error is propagated at once
\* (send_request_no_self(..).await?), skipping the release.
SendCompleteEarlyReturn(t, o) ==
    /\ pc[t] = "send"
    /\ res' = [res EXCEPT ![t] = o]
    /\ pc' = [pc EXCEPT ![t] = IF o \in Errors THEN "idle" ELSE "lock_release"]
    /\ client' = [client EXCEPT ![t] = IF o \in Errors THEN NoClient ELSE client[t]]
    /\ UNCHANGED <<client_pool, mutex, notify_permit, notify_waiters,
                   connections_alloc, connections_total, rq>>

\* api.rs:157-158  the round trip on the acquired client ends with outcome o.
SendComplete(t, o) ==
    /\ pc[t] = "send"
    /\ res' = [res EXCEPT ![t] = o]
    /\ pc' = [pc EXCEPT ![t] = "lock_release"]
    /\ UNCHANGED <<client_pool, mutex, notify_permit, notify_waiters,
                   connections_alloc, connections_total, client, rq>>

\* api.rs:160  self.client_pool.lock().await completes.
LockRelease(t) ==
    /\ pc[t] = "lock_release"
    /\ mutex = 0
    /\ mutex' = t
    /\ pc' = [pc EXCEPT ![t] = "release_cs"]
    /\ UNCHANGED <<client_pool, notify_permit, notify_waiters,
                   connections_alloc, connections_total, client, res, rq>>

\* api.rs:161-164  push_front(client), notify_one(), the guard goes out of
\* scope, and res is returned to the caller.
ReleaseBody(t) ==
    /\ pc[t] = "release_cs"
    /\ mutex = t
    /\ client_pool' = PushFront(client_pool, client[t])
    /\ notify_permit' = NotifyOnePermit(notify_permit, notify_waiters)
    /\ notify_waiters' = NotifyOneWaiters(notify_waiters)
    /\ pc' = [u \in AllTasks |->
                IF u = t THEN "idle"
                ELSE IF u \in NotifyOneWoken(notify_waiters) THEN "woken"
                ELSE pc[u]]
    /\ client' = [client EXCEPT ![t] = NoClient]
    /\ mutex' = 0
    /\ UNCHANGED <<connections_alloc, connections_total, res, rq>>

\* The caller drops the pending send_request future.  A future can be dropped
\* only while it is suspended at an await: on the contended lock (api.rs:138,
\* 160), in notified() (api.rs:154) or in the round trip (api.rs:158).  Its
\* locals are dropped: `client` is the last reference to its handle, so the
\* handle is destroyed; nothing pushes it back and nothing is notified
\* (send_request has no drop guard).  tokio's Notified, dropped after it was
\* selected by notify_one and before it was polled again, passes the
\* notification on.
Cancel(t) ==
    /\ \/ pc[t] \in {"waiting", "woken", "send"}
       \/ pc[t] \in {"lock_acquire", "lock_release"} /\ mutex # 0
    /\ pc' = [u \in AllTasks |->
                IF u = t THEN "idle"
                ELSE IF pc[t] = "woken" /\ u \in NotifyOneWoken(notify_waiters)
                     THEN "woken"
                ELSE pc[u]]
    /\ notify_waiters' =
          IF pc[t] = "woken" THEN NotifyOneWaiters(notify_waiters)
          ELSE Remove(notify_waiters, t)
    /\ notify_permit' =
          IF pc[t] = "woken" THEN NotifyOnePermit(notify_permit, notify_waiters)
          ELSE notify_permit
    /\ client' = [client EXCEPT ![t] = NoClient]
    /\ res' = [res EXCEPT ![t] = "none"]
    /\ UNCHANGED <<client_pool, mutex, connections_alloc, connections_total, rq>>

\* One step of caller t.
Step(t) ==
    \/ Dispatch(t)
    \/ LockAcquire(t)
    \/ AcquireBody(t)
    \/ NotifiedPoll(t)
    \/ Resume(t)
    \/ \E o \in Outcomes : SendComplete(t, o)
    \/ LockRelease(t)
    \/ ReleaseBody(t)
    \/ Cancel(t)

Next == \E t \in Tasks : Step(t)

Spec == Init /\ [][Next]_vars

\* A pool of maximum 2 used by NumTasks + 1 callers.
InitMax2 == New(2) /\ NoCalls
NextAll == \E t \in TasksMax2 : Step(t)
SpecMax2 == InitMax2 /\ [][NextAll]_vars

\* One step of caller t that is neither a new call nor a drop of the future.
LiveStep(t) ==
    \/ LockAcquire(t)
    \/ AcquireBody(t)
    \/ NotifiedPoll(t)
    \/ Resume(t)
    \/ \E o \in Outcomes : SendComplete(t, o)
    \/ LockRelease(t)
    \/ ReleaseBody(t)

LiveNext == \E t \in Tasks : LiveStep(t)

\* NumTasks dispatches issued at once, each once, none dropped, on a pool of
\* maximum 1..MaxConnections.  The pool is as new() made it, or as dropped
\* dispatches left it (Cancel at "send" destroys the handle on loan): k of the
\* construction-time handles remain, and a notify_one permit may be stored
\* from an earlier release (of a handle that was destroyed later).  Spec
\* reaches each of these states.
InitLive ==
    /\ \E k \in (0..MaxIdle) \cup {InitialBatch} :
          client_pool = [i \in 1..k |-> Unnamed]
    /\ mutex = 0
    /\ notify_permit \in (IF Len(client_pool) = InitialBatch THEN {FALSE} ELSE BOOLEAN)
    /\ notify_waiters = <<>>
    /\ connections_alloc = 0
    /\ connections_total \in 1..MaxConnections
    /\ pc = [t \in AllTasks |-> IF t \in Tasks THEN "lock_acquire" ELSE "idle"]
    /\ client = [t \in AllTasks |-> NoClient]
    /\ res = [t \in AllTasks |-> "none"]
    /\ rq = NoRequest

\* The scheduler is fair to every caller, the tokio Mutex and Notify hand
\* over to a ready caller, and every round trip ends.
LiveSpec ==
    /\ InitLive
    /\ [][LiveNext]_vars
    /\ \A t \in Tasks : WF_vars(LiveStep(t))

\* ------------------------------------------- get_auth, send_request_no_self
\* api.rs:11-15
ChromaTokenHeader == {"Authorization", "XChromaToken"}

\* The credentials the callers configure.
Usernames == {"alice", "bob"}
Passwords == {"secret"}
Tokens == {"tok-1", "tok-2"}

\* api.rs:17-28
ChromaAuthMethod ==
    {[kind |-> "None"]}
    \cup {[kind |-> "BasicAuth", username |-> u, password |-> p] :
              u \in Usernames, p \in Passwords}
    \cup {[kind |-> "TokenAuth", token |-> k, header |-> h] :
              k \in Tokens, h \in ChromaTokenHeader}

\* Option<Value>: the JSON body of a request, if any.
JsonBodies == {"None", "Some"}

\* api.rs:176  BASE64_STANDARD.encode(format!("{username}:{password}")): the
\* encoding is one-to-one, and it is kept as a term over what it encodes.
Base64Standard(username, password) == <<"base64", username, ":", password>>

\* Mutant of AuthHeaders: the token is sent under both header names.
AuthHeadersBothNames(auth) ==
    CASE auth.kind = "None" -> <<>>
      [] auth.kind = "BasicAuth" ->
            <<[name |-> "Authorization",
               value |-> <<"Basic", Base64Standard(auth.username, auth.password)>>]>>
      [] auth.kind = "TokenAuth" ->
            <<[name |-> "Authorization", value |-> <<"Bearer", auth.token>>],
              [name |-> "X-Chroma-Token", value |-> auth.token]>>

\* api.rs:172-187  the headers the match on auth_method adds to the request.
AuthHeaders(auth) ==
    CASE auth.kind = "None" -> <<>>
      [] auth.kind = "BasicAuth" ->
            <<[name |-> "Authorization",
               value |-> <<"Basic", Base64Standard(auth.username, auth.password)>>]>>
      [] auth.kind = "TokenAuth" /\ auth.header = "Authorization" ->
            <<[name |-> "Authorization", value |-> <<"Bearer", auth.token>>]>>
      [] auth.kind = "TokenAuth" /\ auth.header = "XChromaToken" ->
            <<[name |-> "X-Chroma-Token", value |-> auth.token]>>

\* api.rs:190-194  a JSON body brings its Content-Type header.
JsonHeaders(json_body) ==
    IF json_body = "Some"
    THEN <<[name |-> "Content-Type", value |-> "application/json"]>>
    ELSE <<>>

\* The status codes and the body texts a server answers with.
Statuses == {200, 204, 299, 300, 404, 500, 599}
Bodies == {"", "no such collection"}

\* Mutant of IsSuccess: a redirection counts as a success.
IsSuccessBelow400(status) == 200 <= status /\ status < 400

\* api.rs:199  status.is_success(): the status is in 200..=299.
IsSuccess(status) == 200 <= status /\ status < 300

\* api.rs:206  status.canonical_reason(): the standard reason phrase of the
\* status, if it has one (an Option, kept as a set of at most one phrase).
CanonicalReason(status) ==
    CASE status = 200 -> {"OK"}
      [] status = 204 -> {"No Content"}
      [] status = 300 -> {"Multiple Choices"}
      [] status = 404 -> {"Not Found"}
      [] status = 500 -> {"Internal Server Error"}
      [] OTHER -> {}

\* Option::unwrap_or
UnwrapOr(option, default) ==
    IF option = {} THEN default ELSE CHOOSE x \in option : TRUE

\* api.rs:203-208  anyhow::bail!("{} {}: {}", code, reason, error_text)
StatusError(status, error_text) ==
    [kind |-> "application", code |-> status,
     reason |-> UnwrapOr(CanonicalReason(status), "Unknown"),
     body |-> error_text]

\* api.rs:196, 202, 126  the reqwest::Error that an await with `?` passes on.
TransportError == [kind |-> "transport"]

\* api.rs:199-200  Ok(response): the live response.
LiveResponse(status, body) == [kind |-> "ok", status |-> status, body |-> body]

\* api.rs:171-195  send_request_no_self is called and builds its request.
BuildRequest(caller, auth, json_body) ==
    /\ rq.pc = "idle"
    /\ rq' = [NoRequest EXCEPT !.pc = "send", !.caller = caller, !.auth = auth,
                                !.json_body = json_body,
                                !.headers = AuthHeaders(auth) \o JsonHeaders(json_body)]

\* Mutant of GetAuth: the identity request goes out on a handle taken from
\* the idle queue.
GetAuthFromPool(auth) ==
    /\ BuildRequest("get_auth", auth, "None")
    /\ client_pool # <<>>
    /\ client_pool' = Tail(client_pool)
    /\ UNCHANGED <<mutex, notify_permit, notify_waiters, connections_alloc,
                   connections_total, pc, client, res>>

\* api.rs:121-125  get_auth makes a client of its own (Client::new(), not a
\* handle of any pool; get_auth has no self) and calls send_request_no_self
\* on a GET request with no body.
GetAuth(auth) ==
    /\ BuildRequest("get_auth", auth, "None")
    /\ UNCHANGED pool_vars

\* api.rs:157-158  send_request_no_self as send_request calls it, with the
\* pool's auth_method and the caller's body, looked at on its own.
SendRequestNoSelf(auth, json_body) ==
    /\ BuildRequest("send_request", auth, json_body)
    /\ UNCHANGED pool_vars

\* api.rs:196  request.send().await? fails: the error is passed on.
SendFails ==
    /\ rq.pc = "send"
    /\ rq' = [rq EXCEPT !.pc = "done", !.result = TransportError]
    /\ UNCHANGED pool_vars

\* api.rs:196-200  a response arrives; a success is returned as it is.
SendResponds(status, body) ==
    /\ rq.pc = "send"
    /\ rq' = [rq EXCEPT !.status = status, !.body = body,
                        !.pc = IF IsSuccess(status) THEN "done" ELSE "text",
                        !.result = IF IsSuccess(status)
                                   THEN LiveResponse(status, body)
                                   ELSE rq.result]
    /\ UNCHANGED pool_vars

\* api.rs:202-208  response.text().await yields the body and the error is
\* made of the status and the body.
ReadTextOk ==
    /\ rq.pc = "text"
    /\ rq' = [rq EXCEPT !.pc = "done", !.result = StatusError(rq.status, rq.body)]
    /\ UNCHANGED pool_vars

\* api.rs:202  response.text().await? fails (the connection breaks while the
\* body is read): the error is passed on.
ReadTextFails ==
    /\ rq.pc = "text"
    /\ rq' = [rq EXCEPT !.pc = "done", !.result = TransportError]
    /\ UNCHANGED pool_vars

\* api.rs:126  resp.json().await?: the body is decoded into a UserIdentity,
\* or the error is passed on.
GetAuthJson(decoded) ==
    /\ rq.pc = "done"
    /\ rq.caller = "get_auth"
    /\ rq.result.kind = "ok"
    /\ rq' = [rq EXCEPT !.pc = "parsed",
                        !.result = IF decoded THEN [kind |-> "identity"]
                                   ELSE TransportError]
    /\ UNCHANGED pool_vars

\* api.rs:125, 127, 164  the call returns its result to its caller.
RequestReturns ==
    /\ \/ rq.pc = "parsed"
       \/ rq.pc = "done" /\ ~(rq.caller = "get_auth" /\ rq.result.kind = "ok")
    /\ rq' = NoRequest
    /\ UNCHANGED pool_vars

\* One step of a call of get_auth.
GetAuthStep ==
    \/ \E auth \in ChromaAuthMethod : GetAuth(auth)
    \/ SendFails
    \/ \E status \in Statuses, body \in Bodies : SendResponds(status, body)
    \/ ReadTextOk
    \/ ReadTextFails
    \/ \E decoded \in BOOLEAN : GetAuthJson(decoded)
    \/ RequestReturns

\* Calls of send_request_no_self, one at a time, with every auth method and
\* with and without a body, on a pool that nobody uses.
RequestNext ==
    \/ GetAuthStep
    \/ \E auth \in ChromaAuthMethod, json_body \in JsonBodies :
          SendRequestNoSelf(auth, json_body)

RequestSpec == Init /\ [][RequestNext]_vars

\* A pool as dropped dispatches left it (Cancel at "send" destroys the handle
\* on loan): at most MaxIdle of the construction-time handles remain, none
\* was allocated yet, a notify_one permit may be stored from an earlier
\* release, and no call is under way.  Spec reaches each of these states.
InitDrained ==
    /\ \E k \in 0..MaxIdle : client_pool = [i \in 1..k |-> Unnamed]
    /\ mutex = 0
    /\ notify_permit \in BOOLEAN
    /\ notify_waiters = <<>>
    /\ connections_alloc = 0
    /\ connections_total \in 0..MaxConnections
    /\ NoCalls

\* Calls of get_auth, one at a time, while the callers of Spec dispatch on
\* the pool.
AuthNext ==
    \/ \E t \in Tasks : Step(t)
    \/ GetAuthStep

AuthSpec == InitDrained /\ [][AuthNext]_vars

\* All callers dispatch again and again on a drained pool, and no dispatch
\* is dropped: with MaxIdle + MaxConnections handles at most, two callers
\* can hold a handle while two more find the pool saturated.
WakeNext == \E t \in AllTasks : Dispatch(t) \/ LiveStep(t)

WakeSpec == InitDrained /\ [][WakeNext]_vars

\* The callers of Spec dispatch again and again, without end, on a drained
\* pool that has at least one handle to give; no dispatch is dropped.  The
\* scheduler is fair to every caller, every round trip ends, and the tokio
\* Mutex is fair: a caller that asks for it again and again gets it.
InitBusy == InitDrained /\ Len(client_pool) + connections_total >= 1

BusyStep(t) == Dispatch(t) \/ LiveStep(t)

BusyNext == \E t \in Tasks : BusyStep(t)

BusySpec ==
    /\ InitBusy
    /\ [][BusyNext]_vars
    /\ \A t \in Tasks :
          /\ WF_vars(BusyStep(t))
          /\ SF_vars(LockAcquire(t))
          /\ SF_vars(LockRelease(t))

\* ------------------------------------------------------------ measures
\* The callers that hold a handle in their local `client`.
Holders == {t \in AllTasks : client[t] # NoClient}

\* Client handles in existence: idle in the queue plus on loan.
HandlesInExistence == Len(client_pool) + Cardinality(Holders)

\* Caller t returns from send_request in this step (it is not dropped: Cancel
\* leaves no result).
Returns(t) == pc[t] # "idle" /\ pc'[t] = "idle" /\ res'[t] # "none"

\* -------------------------------------------------------------- claims

\* C1: in every reachable state the number of client handles in existence
\* (idle in the queue plus on loan) is at most the configured maximum.
C1_HandlesAtMostMaximum == HandlesInExistence <= connections_total

\* C2: with a fair scheduler and round trips that end, all the dispatches
\* issued at once on a pool of maximum M >= 1 (more dispatches than M)
\* eventually return; none stays suspended in the acquire loop.
C2_AllDispatchesComplete ==
    <>(\A t \in Tasks : pc[t] = "idle" /\ res[t] \in Outcomes)

\* C2 witness: there are more dispatches than the maximum, one holds a
\* handle and another is suspended in the acquire loop.
C2_Witness ==
    /\ NumTasks > connections_total
    /\ \E t, u \in Tasks :
          /\ pc[t] = "waiting"
          /\ client[u] # NoClient

C4_CancelReleasesHandle ==
    [][\A t \in AllTasks :
          (Cancel(t) /\ client[t] # NoClient) =>
             /\ client_pool' # <<>>
             /\ Head(client_pool') = client[t]
             /\ HandlesInExistence' = HandlesInExistence]_vars

\* C5: no two callers hold the same handle, a handle on loan is not in the
\* idle queue, and a caller past the acquire loop (sending or releasing)
\* holds a handle.
C5_MutualExclusion ==
    /\ \A t, u \in AllTasks :
          (t # u /\ client[t] # NoClient) => client[t] # client[u]
    /\ \A t \in AllTasks :
          client[t] # NoClient => client[t] \notin Range(client_pool)
    /\ \A t \in AllTasks :
          pc[t] \in {"send", "lock_release", "release_cs"} <=> client[t] # NoClient

\* C5 witness: two requests are in flight at once on a pool that is empty and
\* has allocated.
C5_Witness ==
    \E t, u \in Tasks :
        /\ t # u
        /\ pc[t] = "send" /\ pc[u] = "send"
        /\ client_pool = <<>>
        /\ connections_alloc >= 1

\* C6: on a pool of maximum 2 with two dispatches holding handles, a third
\* caller holds no handle (its acquire is suspended until a release).
C6_ThirdAcquireBlocks ==
    connections_total = 2 =>
        \A t, u, v \in AllTasks :
            (/\ t # u /\ t # v /\ u # v
             /\ client[t] # NoClient /\ client[u] # NoClient)
                => (client[v] = NoClient /\ pc[v] # "send")

\* C7: the allocation counter never exceeds the configured maximum.
C7_AllocAtMostTotal == connections_alloc <= connections_total

\* C7 witness: the counter has reached a maximum of at least 1 and a caller
\* that found it there is on its way to wait.
C7_Witness ==
    /\ connections_total >= 1
    /\ connections_alloc = connections_total
    /\ \E t \in Tasks : pc[t] \in {"notified", "waiting"}

\* C8: the length of the idle queue is at most the allocation counter.
C8_QueueAtMostAllocated == Len(client_pool) <= connections_alloc

\* C9: on a pool of maximum 0 no dispatch ever obtains a handle or reaches
\* the network send.
C9_MaxZeroNeverAcquires ==
    connections_total = 0 =>
        \A t \in AllTasks : client[t] = NoClient /\ pc[t] # "send"

\* C10: a caller that finds the pool saturated is suspended with no result; a
\* result is only ever produced by the send of a caller that holds a handle,
\* and it is the response, a transport error or a status error.
C10_SaturationNeverFails ==
    [][\A t \in AllTasks :
          /\ (/\ pc[t] = "acquire_cs" /\ pc'[t] # "acquire_cs"
              /\ client_pool = <<>>
              /\ connections_alloc >= connections_total)
                => (pc'[t] = "notified" /\ res'[t] = "none")
          /\ (res'[t] # res[t] /\ res'[t] # "none")
                => (pc[t] = "send" /\ client[t] # NoClient /\ res'[t] \in Outcomes)
          /\ Returns(t) => (client[t] # NoClient /\ res'[t] = res[t])]_vars

\* C10 witness: one caller is suspended on a saturated pool while another has
\* returned an error.
C10_Witness ==
    \E t, u \in Tasks :
        /\ pc[t] = "waiting" /\ res[t] = "none"
        /\ pc[u] = "idle" /\ res[u] \in Errors

\* The headers of the request under way that carry the given name.
HeaderCount(name) ==
    Cardinality({i \in 1..Len(rq.headers) : rq.headers[i].name = name})

\* send_request_no_self has returned after a response arrived.
ReturnedOnResponse == rq.pc = "done" /\ rq.status # 0

\* The error of a response that is not a success, as the claim describes it.
IsStatusErrorOf(result, status, body) ==
    /\ result.kind = "application"
    /\ result.code = status
    /\ result.reason = (IF CanonicalReason(status) = {} THEN "Unknown"
                        ELSE CHOOSE phrase \in CanonicalReason(status) : TRUE)
    /\ status = 404 => result.reason = "Not Found"
    /\ result.body = body

\* C11 as stated: whatever the status of the response, the live response is
\* returned with no error exactly when the status is in 200..299, and every
\* other status yields the application error that carries the status code,
\* its canonical reason phrase ("Unknown" if it has none) and the body text.
C11_StatusDecidesResult ==
    ReturnedOnResponse =>
        /\ rq.result.kind = "ok" <=> rq.status \in 200..299
        /\ rq.status \notin 200..299 =>
               IsStatusErrorOf(rq.result, rq.status, rq.body)

\* C11 amended: the live response is returned with no error exactly when the
\* status is in 200..299; every other status yields the application error
\* with code, reason phrase and body text if the body could be read, and the
\* transport error of the read if it could not.
C11_StatusDecidesResultIfBodyRead ==
    ReturnedOnResponse =>
        /\ rq.result.kind = "ok" <=> rq.status \in 200..299
        /\ rq.result.kind = "ok" =>
               rq.result = [kind |-> "ok", status |-> rq.status, body |-> rq.body]
        /\ rq.status \notin 200..299 =>
               \/ IsStatusErrorOf(rq.result, rq.status, rq.body)
               \/ rq.result = TransportError

\* A status with no canonical reason phrase was answered with its body, and
\* the error names it "Unknown".
C11_Witness ==
    /\ ReturnedOnResponse
    /\ rq.status = 599
    /\ rq.body # ""
    /\ rq.result.kind = "application"
    /\ rq.result.reason = "Unknown"

\* C12: the authentication headers of a request depend on the variant of
\* the auth method alone: None adds none; BasicAuth and TokenAuth with
\* header kind Authorization add exactly one Authorization header (and no
\* X-Chroma-Token header); TokenAuth with header kind XChromaToken adds
\* exactly one X-Chroma-Token header and no Authorization header.
C12_AuthHeaderByVariant ==
    rq.pc # "idle" =>
        LET authorization == HeaderCount("Authorization")
            x_chroma_token == HeaderCount("X-Chroma-Token")
        IN  /\ rq.auth.kind = "None" =>
                   authorization = 0 /\ x_chroma_token = 0
            /\ rq.auth.kind = "BasicAuth" =>
                   authorization = 1 /\ x_chroma_token = 0
            /\ rq.auth.kind = "TokenAuth" =>
                   IF rq.auth.header = "Authorization"
                   THEN authorization = 1 /\ x_chroma_token = 0
                   ELSE authorization = 0 /\ x_chroma_token = 1

\* A request with a body goes out under TokenAuth with the X-Chroma-Token
\* header kind.
C12_Witness ==
    /\ rq.pc = "send"
    /\ rq.auth.kind = "TokenAuth"
    /\ rq.auth.header = "XChromaToken"
    /\ rq.json_body = "Some"
    /\ Len(rq.headers) = 2

\* C13: a step of get_auth, on its way to success or to failure and
\* whatever the callers of the pool are doing, changes neither the idle
\* queue nor the allocation counter nor the handles on loan (nor the mutex
\* or the notification), and get_auth can always take its next step: it
\* waits for nothing the pool has.
C13_GetAuthBypassesPool ==
    /\ [][rq' # rq =>
            /\ client_pool' = client_pool
            /\ connections_alloc' = connections_alloc
            /\ OnLoan' = OnLoan
            /\ UNCHANGED <<mutex, notify_permit, notify_waiters>>]_vars
    /\ [](ENABLED GetAuthStep)

\* get_auth has resolved an identity while the pool is saturated: the queue
\* is empty, the counter is at the maximum, one caller has the handle on
\* loan and another is suspended.
C13_Witness ==
    /\ rq.pc = "parsed"
    /\ rq.result = [kind |-> "identity"]
    /\ client_pool = <<>>
    /\ connections_alloc = connections_total
    /\ \E t, u \in Tasks : pc[t] = "send" /\ pc[u] = "waiting"

\* C14: the step of an acquire under the lock.  With a non-empty queue it
\* pops a handle and goes on to the request, without waiting and with the
\* counter unchanged; the counter changes, and a handle comes into
\* existence, only by an increment of one with a new handle, on an empty
\* queue with the counter below the maximum; the caller goes to suspend on
\* the notification only on an empty queue with the counter at the maximum.
C14_AcquireBranches ==
    [][\A t \in AllTasks :
          pc[t] = "acquire_cs" /\ pc'[t] # "acquire_cs" =>
              /\ client_pool # <<>> =>
                     /\ pc'[t] = "send"
                     /\ client'[t] # NoClient
                     /\ Len(client_pool) = Len(client_pool') + 1
                     /\ connections_alloc' = connections_alloc
              /\ (connections_alloc' # connections_alloc
                     \/ HandlesInExistence' # HandlesInExistence) =>
                     /\ client_pool = <<>>
                     /\ connections_alloc < connections_total
                     /\ connections_alloc' = connections_alloc + 1
                     /\ HandlesInExistence' = HandlesInExistence + 1
                     /\ pc'[t] = "send"
                     /\ client'[t] \notin OnLoan \cup {NoClient}
              /\ pc'[t] = "notified" =>
                     /\ client_pool = <<>>
                     /\ connections_alloc = connections_total
                     /\ client'[t] = NoClient]_vars

\* After pops from the initial batch, one caller has allocated the only
\* handle the maximum allows and another went to suspend.
C14_Witness ==
    \E t, u \in Tasks :
        /\ pc[t] = "notified"
        /\ client[u] # NoClient
        /\ pc[u] = "send"
        /\ client_pool = <<>>
        /\ connections_alloc = connections_total
        /\ connections_alloc >= 1

\* Some caller other than t is on its way to the idle queue: it was woken,
\* or it is about to lock or inside the section under the lock, or it is
\* about to poll notified() and a permit is stored for it.
AcquirerOnItsWay(t) ==
    \E u \in AllTasks \ {t} :
        \/ pc[u] \in {"woken", "lock_acquire", "acquire_cs"}
        \/ pc[u] = "notified" /\ notify_permit

\* C15: releases wake as many callers as there are handles pushed, also
\* callers that were between their failed check and their wait when the
\* releases happened: no caller stays suspended on the notification beside
\* a non-empty idle queue, unless a wake-up is on its way (a stored permit,
\* or another caller already heading for the queue).
C15_NoWaiterBesideIdleHandle ==
    \A t \in AllTasks :
        pc[t] = "waiting" /\ client_pool # <<>> =>
            notify_permit \/ AcquirerOnItsWay(t)

\* C16: every handle is either idle, once in the queue, or on loan to
\* exactly one caller and not in the queue; a caller takes a handle only
\* when it holds none, keeps it until it gives it up, and a dispatch that
\* returns pushes the very handle it held, once; so no handle is in the
\* queue twice.
C16_HandleIdleOrOnLoan ==
    /\ [](\A h \in Range(client_pool) \ {Unnamed} :
              Cardinality({i \in 1..Len(client_pool) : client_pool[i] = h}) = 1)
    /\ [](\A t \in AllTasks :
              client[t] # NoClient =>
                  /\ client[t] \notin Range(client_pool)
                  /\ \A u \in AllTasks \ {t} : client[u] # client[t])
    /\ [][\A t \in AllTasks :
              /\ client'[t] # client[t] =>
                     \/ /\ client[t] = NoClient
                        /\ pc[t] = "acquire_cs" /\ pc'[t] = "send"
                     \/ client'[t] = NoClient
              /\ Returns(t) =>
                     /\ client[t] # NoClient
                     /\ client'[t] = NoClient
                     /\ client_pool' = <<client[t]>> \o client_pool]_vars

\* A dispatch has returned its handle to the front of the queue while
\* another handle is on loan.
C16_Witness ==
    /\ client_pool # <<>>
    /\ Head(client_pool) # Unnamed
    /\ \E t, u \in Tasks :
          /\ res[t] = "ok" /\ pc[t] = "idle"
          /\ client[u] # NoClient

\* C17: the mutex of the idle queue is held only inside the pop/allocate
\* step and inside the push/notify step: no caller holds it during its
\* round trip, nor while it is about to wait, suspended or woken on the
\* release notification, nor while it waits for the mutex itself.
C17_MutexOnlyInSections ==
    \A t \in AllTasks :
        /\ mutex = t => pc[t] \in {"acquire_cs", "release_cs"}
        /\ pc[t] \in {"send", "notified", "waiting", "woken"} => mutex # t

\* One caller is suspended on the notification while the other holds the
\* mutex to push its handle back.
C17_Witness ==
    \E t, u \in Tasks :
        /\ pc[t] = "waiting"
        /\ pc[u] = "release_cs"
        /\ mutex = u

\* C18 as stated: with a fair scheduler and callers that dispatch again and
\* again, every caller suspended in acquire eventually obtains a handle: no
\* waiter is bypassed forever by callers that arrive later.
C18_WaiterObtainsHandle ==
    \A t \in Tasks : (pc[t] = "waiting") ~> (client[t] # NoClient)

\* C18 amended: with a fair scheduler and callers that dispatch again and
\* again, every caller suspended in acquire is eventually woken by a
\* release (it is not said to obtain a handle: a caller that arrives later
\* can take the released handle first, every time).
C18_WaiterWoken ==
    \A t \in Tasks : (pc[t] = "waiting") ~> (pc[t] = "woken")

\* A waiter was woken by a release, and the caller that released has
\* dispatched again and reaches the queue first.
C18_Witness ==
    \E t, u \in Tasks :
        /\ pc[t] = "woken"
        /\ pc[u] = "acquire_cs"
        /\ client_pool # <<>>
        /\ res[u] = "none"

\* C19: at construction the handles in existence are the initial batch, and
\* the counter is 0; every step other than the drop of a dispatch adds as
\* many handles as it adds to the counter, lowers neither the counter nor
\* the number of handles; so as long as no dispatch was dropped the handles
\* in existence are the initial batch plus the counter.  Dropped or not,
\* they never exceed the initial batch plus the maximum.
C19_HandlesAreBatchPlusAllocated ==
    /\ HandlesInExistence = InitialBatch + connections_alloc
    /\ [][(~ \E t \in AllTasks : Cancel(t)) =>
            /\ HandlesInExistence' + connections_alloc
                  = HandlesInExistence + connections_alloc'
            /\ connections_alloc' >= connections_alloc
            /\ HandlesInExistence' >= HandlesInExistence]_vars
    /\ [](HandlesInExistence <= InitialBatch + connections_total)

\* The counter was incremented for the one handle that exists, and that
\* handle was released to the queue.
C19_Witness ==
    /\ connections_alloc = 1
    /\ HandlesInExistence = 1
    /\ Len(client_pool) = 1
    /\ Head(client_pool) # Unnamed

====
